---- MODULE Spec2Model ----
(***************************************************************************)
(* Event-set lifecycle and measurement engine of low_level_papi.           *)
(*                                                                         *)
(* The native layer is the embedded C implementation that papi_build.py    *)
(* writes to papi_impl.c; the Python layer is core.py (thin wrappers) and  *)
(* exceptions.py (status code -> exception class).  A native function is   *)
(* an operator that returns a record: its status `rc`, the event-set       *)
(* table after the call `es`, and its output parameter.  A wrapper of      *)
(* core.py is an operator that returns the outcome of the call (`out`, a   *)
(* returned value or a raised exception) and the state after it.           *)
(***************************************************************************)
EXTENDS Integers, Sequences, FiniteSets, TLC

(***************************************************************************)
(* Bounds of the exploration.                                              *)
(***************************************************************************)
MaxSets == 1        \* event sets allocated at the same time
MaxMembers == 2     \* members an event set is grown to
MaxTsc == 1         \* ticks of the cycle counter
MaxJiffies == 1     \* ticks of the process CPU time (utime + stime)
MaxSetsWide == 2    \* event sets allocated at the same time, in SpecShutdown
MaxStatus == 30     \* statuses -MaxStatus .. MaxStatus, in SpecTaxonomy

(***************************************************************************)
(* Constants of papi_impl.c.                                               *)
(***************************************************************************)
MAX_EVENTS == 10
MAX_EVENT_SETS == 32

(***************************************************************************)
(* Constants of papi.h, which is not among the sources: the status codes   *)
(* in the order of the error taxonomy, the version and the preset codes.   *)
(***************************************************************************)
PAPI_OK == 0
PAPI_EINVAL == 0 - 1
PAPI_ENOMEM == 0 - 2
PAPI_ESYS == 0 - 3
PAPI_ECMP == 0 - 4
PAPI_ECLOST == 0 - 5
PAPI_EBUG == 0 - 6
PAPI_ENOEVNT == 0 - 7
PAPI_ECNFLCT == 0 - 8
PAPI_ENOTRUN == 0 - 9
PAPI_EISRUN == 0 - 10
PAPI_ENOEVST == 0 - 11
PAPI_ENOTPRESET == 0 - 12
PAPI_ENOCNTR == 0 - 13
PAPI_EMISC == 0 - 14
PAPI_EPERM == 0 - 15
PAPI_ENOINIT == 0 - 16
PAPI_ENOCMP == 0 - 17
PAPI_ENOSUPP == 0 - 18
PAPI_ENOIMPL == 0 - 19
PAPI_EBUF == 0 - 20
PAPI_EINVAL_DOM == 0 - 21
PAPI_EATTR == 0 - 22
PAPI_ECOUNT == 0 - 23
PAPI_ECOMBO == 0 - 24
PAPI_ECMP_DISABLED == 0 - 25
PAPI_EDELAY_INIT == 0 - 26
PAPI_NULL == 0 - 1
PAPI_VER_CURRENT == 7 * 16777216
PAPI_TOT_INS == (0 - 2147483647) + 49
PAPI_TOT_CYC == (0 - 2147483647) + 58

VARIABLES
    papi_initialized,   \* static int papi_initialized
    event_sets,         \* static EventSet event_sets[MAX_EVENT_SETS]
    tsc,                \* the time-stamp counter read by rdtsc()
    jiffies,            \* utime + stime of /proc/<pid>/stat
    last,               \* the last call of the Python API and its outcome
    adds,               \* history: per slot, the codes add_event accepted
    invalidated,        \* history: the handles that a shutdown (SpecShutdown)
                        \* or a destroy_eventset (SpecDestroy) invalidated
    main,               \* the program of examples/basic_counting.py
    wrapped             \* a decorated function: what it returned and the outcome

vars == <<papi_initialized, event_sets, tsc, jiffies, last, adds, invalidated,
          main, wrapped>>

Slots == 0 .. (MAX_EVENT_SETS - 1)
Positions == 0 .. (MAX_EVENTS - 1)

(***************************************************************************)
(* Memory.  An array is held sparsely: a function from the indices of its  *)
(* nonzero words to those words, so that zeroed storage is the empty       *)
(* function and every memory content has one representation.               *)
(***************************************************************************)
Zeroed == [j \in {} |-> 0]

Get(a, i) == IF i \in DOMAIN a THEN a[i] ELSE 0

Put(a, i, v) ==
    [j \in (IF v = 0 THEN (DOMAIN a) \ {i} ELSE (DOMAIN a) \cup {i}) |->
        IF j = i THEN v ELSE a[j]]

\* a zeroed EventSet structure (static storage, and memset in
\* PAPI_library_init)
EventSet == [id |-> 0,
             num_events |-> 0,
             events |-> Zeroed,
             start_values |-> Zeroed,
             running |-> 0]

\* event_sets[h], and event_sets with event_sets[h] overwritten
Slot(h) == IF h \in DOMAIN event_sets THEN event_sets[h] ELSE EventSet

SetSlot(h, set) ==
    [s \in (IF set = EventSet THEN (DOMAIN event_sets) \ {h}
            ELSE (DOMAIN event_sets) \cup {h}) |->
        IF s = h THEN set ELSE event_sets[s]]

(***************************************************************************)
(* Counter sources.                                                        *)
(***************************************************************************)
rdtsc == tsc

get_cycles == rdtsc

get_instructions ==
    LET result == jiffies * 1000000
    IN  IF result = 0 THEN get_cycles ELSE result

\* the counter that PAPI_start, PAPI_read and PAPI_reset sample for an event
CounterOf(event) ==
    IF event = PAPI_TOT_CYC THEN get_cycles
    ELSE IF event = PAPI_TOT_INS THEN get_instructions
    ELSE get_cycles

(***************************************************************************)
(* exceptions.py                                                           *)
(***************************************************************************)
\* the exception classes in the order of their declaration
ErrorClasses ==
    << "PapiInvalidValueError", "PapiNoMemoryError", "PapiSystemError",
       "PapiComponentError", "PapiCountersLostError", "PapiBugError",
       "PapiNoEventError", "PapiConflictError", "PapiNotRunningError",
       "PapiIsRunningError", "PapiNoEventSetError", "PapiNotPresetError",
       "PapiNoCounterError", "PapiMiscError", "PapiPermissionError",
       "PapiNotInitializedError", "PapiNoComponentError",
       "PapiNotSupportedError", "PapiNotImplementedError", "PapiBufferError",
       "PapiInvalidDomainError", "PapiAttributeError", "PapiCountError",
       "PapiComboError", "PapiComponentDisabledError", "PapiDelayInitError" >>

\* variant: the classes of PAPI_ENOTRUN and PAPI_EISRUN are exchanged
ERROR_MAP_running_exchanged ==
    [c \in (0 - 26) .. (0 - 1) |->
        IF c = PAPI_ENOTRUN THEN "PapiIsRunningError"
        ELSE IF c = PAPI_EISRUN THEN "PapiNotRunningError"
        ELSE ErrorClasses[0 - c]]

ERROR_MAP ==
    [c \in {PAPI_EINVAL, PAPI_ENOMEM, PAPI_ESYS, PAPI_ECMP, PAPI_ECLOST,
            PAPI_EBUG, PAPI_ENOEVNT, PAPI_ECNFLCT, PAPI_ENOTRUN, PAPI_EISRUN,
            PAPI_ENOEVST, PAPI_ENOTPRESET, PAPI_ENOCNTR, PAPI_EMISC,
            PAPI_EPERM, PAPI_ENOINIT, PAPI_ENOCMP, PAPI_ENOSUPP,
            PAPI_ENOIMPL, PAPI_EBUF, PAPI_EINVAL_DOM, PAPI_EATTR,
            PAPI_ECOUNT, PAPI_ECOMBO, PAPI_ECMP_DISABLED, PAPI_EDELAY_INIT} |->
        CASE c = PAPI_EINVAL -> "PapiInvalidValueError"
          [] c = PAPI_ENOMEM -> "PapiNoMemoryError"
          [] c = PAPI_ESYS -> "PapiSystemError"
          [] c = PAPI_ECMP -> "PapiComponentError"
          [] c = PAPI_ECLOST -> "PapiCountersLostError"
          [] c = PAPI_EBUG -> "PapiBugError"
          [] c = PAPI_ENOEVNT -> "PapiNoEventError"
          [] c = PAPI_ECNFLCT -> "PapiConflictError"
          [] c = PAPI_ENOTRUN -> "PapiNotRunningError"
          [] c = PAPI_EISRUN -> "PapiIsRunningError"
          [] c = PAPI_ENOEVST -> "PapiNoEventSetError"
          [] c = PAPI_ENOTPRESET -> "PapiNotPresetError"
          [] c = PAPI_ENOCNTR -> "PapiNoCounterError"
          [] c = PAPI_EMISC -> "PapiMiscError"
          [] c = PAPI_EPERM -> "PapiPermissionError"
          [] c = PAPI_ENOINIT -> "PapiNotInitializedError"
          [] c = PAPI_ENOCMP -> "PapiNoComponentError"
          [] c = PAPI_ENOSUPP -> "PapiNotSupportedError"
          [] c = PAPI_ENOIMPL -> "PapiNotImplementedError"
          [] c = PAPI_EBUF -> "PapiBufferError"
          [] c = PAPI_EINVAL_DOM -> "PapiInvalidDomainError"
          [] c = PAPI_EATTR -> "PapiAttributeError"
          [] c = PAPI_ECOUNT -> "PapiCountError"
          [] c = PAPI_ECOMBO -> "PapiComboError"
          [] c = PAPI_ECMP_DISABLED -> "PapiComponentDisabledError"
          [] c = PAPI_EDELAY_INIT -> "PapiDelayInitError"]

(***************************************************************************)
(* Python values that a wrapped function puts in the second component of   *)
(* its (rcode, result) tuple, and outcomes of a call: a returned value or  *)
(* a raised exception, which carries its class and its `code` attribute.   *)
(***************************************************************************)
None == [kind |-> "None", exc |-> "", int |-> 0, list |-> <<>>]
IntVal(n) == [kind |-> "int", exc |-> "", int |-> n, list |-> <<>>]
BoolVal(n) == [kind |-> "bool", exc |-> "", int |-> (IF n = 0 THEN 0 ELSE 1), list |-> <<>>]
ListVal(s) == [kind |-> "list", exc |-> "", int |-> 0, list |-> s]
Raised(cls, code) == [kind |-> "raise", exc |-> cls, int |-> code, list |-> <<>>]

\* printf's %d
RECURSIVE Digits(_)
Digits(n) ==
    LET digit == <<"0", "1", "2", "3", "4", "5", "6", "7", "8", "9">>[(n % 10) + 1]
    IN  IF n < 10 THEN digit ELSE Digits(n \div 10) \o digit

Decimal(n) == IF n < 0 THEN "-" \o Digits(0 - n) ELSE Digits(n)

\* variant: the message of the default case does not print the code
PAPI_strerror_default_without_code(errorCode) ==
    [null |-> FALSE,
     string |->
        CASE errorCode = PAPI_OK -> "No error"
          [] errorCode = PAPI_EINVAL -> "Invalid argument"
          [] errorCode = PAPI_ENOMEM -> "Insufficient memory"
          [] errorCode = PAPI_ESYS -> "A System/C library call failed"
          [] errorCode = PAPI_ECMP -> "Not supported by component"
          [] errorCode = PAPI_ENOINIT -> "PAPI hasn't been initialized yet"
          [] errorCode = PAPI_ENOEVNT -> "Event does not exist"
          [] errorCode = PAPI_ECNFLCT ->
                "Event cannot be counted due to counter resource limitations"
          [] errorCode = PAPI_ENOTRUN -> "EventSet is not started"
          [] errorCode = PAPI_EISRUN -> "EventSet is currently running"
          [] OTHER -> "Unknown error code"]

\* papi_impl.c: the message of a status; `null` says the pointer is NULL
PAPI_strerror(errorCode) ==
    [null |-> FALSE,
     string |->
        CASE errorCode = PAPI_OK -> "No error"
          [] errorCode = PAPI_EINVAL -> "Invalid argument"
          [] errorCode = PAPI_ENOMEM -> "Insufficient memory"
          [] errorCode = PAPI_ESYS -> "A System/C library call failed"
          [] errorCode = PAPI_ECMP -> "Not supported by component"
          [] errorCode = PAPI_ENOINIT -> "PAPI hasn't been initialized yet"
          [] errorCode = PAPI_ENOEVNT -> "Event does not exist"
          [] errorCode = PAPI_ECNFLCT ->
                "Event cannot be counted due to counter resource limitations"
          [] errorCode = PAPI_ENOTRUN -> "EventSet is not started"
          [] errorCode = PAPI_EISRUN -> "EventSet is currently running"
          [] OTHER -> "Unknown error code: " \o Decimal(errorCode)]

\* the constructor of PapiError and of its subclasses, called with a code
\* and no message: ffi.string raises RuntimeError on a NULL pointer
PapiError(cls, code) ==
    IF PAPI_strerror(code).null
    THEN Raised("RuntimeError", code)
    ELSE Raised(cls, code)

\* variant: the result is tested for truth (`if result:`)
papi_error_truthy_result(rcode, result) ==
    IF rcode < 0
    THEN LET error_class == IF rcode \in DOMAIN ERROR_MAP
                            THEN ERROR_MAP[rcode] ELSE "PapiError"
         IN  PapiError(error_class, rcode)
    ELSE IF result.int # 0 \/ result.list # <<>> THEN result ELSE IntVal(rcode)

\* variant: only the statuses of ERROR_MAP are taken for failures
papi_error_mapped_statuses_only(rcode, result) ==
    IF rcode \in DOMAIN ERROR_MAP
    THEN PapiError(ERROR_MAP[rcode], rcode)
    ELSE IF result.kind # "None" THEN result ELSE IntVal(rcode)

\* the wrapper built by the decorator papi_error, applied to what the
\* decorated function returned
papi_error(rcode, result) ==
    IF rcode < 0
    THEN LET error_class == IF rcode \in DOMAIN ERROR_MAP
                            THEN ERROR_MAP[rcode] ELSE "PapiError"
         IN  PapiError(error_class, rcode)
    ELSE IF result.kind # "None" THEN result ELSE IntVal(rcode)

(***************************************************************************)
(* papi_impl.c: the native functions.  `es` is event_sets after the call.  *)
(***************************************************************************)
\* the loops of PAPI_start and PAPI_reset: one sample per member
SampleStart(set) ==
    LET value(i) == IF i < set.num_events
                    THEN CounterOf(Get(set.events, i))
                    ELSE Get(set.start_values, i)
    IN  [set EXCEPT !.start_values =
            [i \in {j \in Positions : value(j) # 0} |-> value(i)]]

\* variant: the early return on papi_initialized is missing
PAPI_library_init_always_clears(version) ==
    [rc |-> PAPI_VER_CURRENT, init |-> 1, es |-> Zeroed]

\* variant: the table of event sets is not cleared
PAPI_library_init_keeps_table(version) ==
    IF papi_initialized # 0
    THEN [rc |-> PAPI_VER_CURRENT, init |-> papi_initialized, es |-> event_sets]
    ELSE [rc |-> PAPI_VER_CURRENT, init |-> 1, es |-> event_sets]

PAPI_library_init(version) ==
    IF papi_initialized # 0
    THEN [rc |-> PAPI_VER_CURRENT, init |-> papi_initialized, es |-> event_sets]
    ELSE [rc |-> PAPI_VER_CURRENT, init |-> 1, es |-> Zeroed]

PAPI_shutdown ==
    [init |-> 0, es |-> event_sets]

PAPI_is_initialized == papi_initialized

\* variant: the search for a free slot stops one slot early
PAPI_create_eventset_skips_last_slot ==
    IF papi_initialized = 0
    THEN [rc |-> PAPI_ENOINIT, es |-> event_sets, EventSet |-> 0]
    ELSE LET free == {i \in 1 .. (MAX_EVENT_SETS - 2) : Slot(i).id = 0}
         IN  IF free = {}
             THEN [rc |-> PAPI_ENOMEM, es |-> event_sets, EventSet |-> 0]
             ELSE LET i == CHOOSE m \in free : \A n \in free : m <= n
                  IN  [rc |-> PAPI_OK,
                       es |-> SetSlot(i, [Slot(i) EXCEPT !.id = i,
                                                         !.num_events = 0,
                                                         !.running = 0]),
                       EventSet |-> i]

\* variant: the slot is chosen by the number of allocated slots
PAPI_create_eventset_by_count ==
    IF papi_initialized = 0
    THEN [rc |-> PAPI_ENOINIT, es |-> event_sets, EventSet |-> 0]
    ELSE LET i == Cardinality({s \in 1 .. (MAX_EVENT_SETS - 1) : Slot(s).id # 0}) + 1
         IN  IF i >= MAX_EVENT_SETS
             THEN [rc |-> PAPI_ENOMEM, es |-> event_sets, EventSet |-> 0]
             ELSE [rc |-> PAPI_OK,
                   es |-> SetSlot(i, [Slot(i) EXCEPT !.id = i,
                                                     !.num_events = 0,
                                                     !.running = 0]),
                   EventSet |-> i]

\* variant: num_events of the slot is not cleared
PAPI_create_eventset_keeps_members ==
    IF papi_initialized = 0
    THEN [rc |-> PAPI_ENOINIT, es |-> event_sets, EventSet |-> 0]
    ELSE LET free == {i \in 1 .. (MAX_EVENT_SETS - 1) : Slot(i).id = 0}
         IN  IF free = {}
             THEN [rc |-> PAPI_ENOMEM, es |-> event_sets, EventSet |-> 0]
             ELSE LET i == CHOOSE m \in free : \A n \in free : m <= n
                  IN  [rc |-> PAPI_OK,
                       es |-> SetSlot(i, [Slot(i) EXCEPT !.id = i, !.running = 0]),
                       EventSet |-> i]

PAPI_create_eventset ==
    IF papi_initialized = 0
    THEN [rc |-> PAPI_ENOINIT, es |-> event_sets, EventSet |-> 0]
    ELSE LET free == {i \in 1 .. (MAX_EVENT_SETS - 1) : Slot(i).id = 0}
         IN  IF free = {}
             THEN [rc |-> PAPI_ENOMEM, es |-> event_sets, EventSet |-> 0]
             ELSE LET i == CHOOSE m \in free : \A n \in free : m <= n
                  IN  [rc |-> PAPI_OK,
                       es |-> SetSlot(i, [Slot(i) EXCEPT !.id = i,
                                                         !.num_events = 0,
                                                         !.running = 0]),
                       EventSet |-> i]

\* variant: num_events is incremented before the store
PAPI_add_event_store_after_increment(h, Event) ==
    IF papi_initialized = 0 THEN [rc |-> PAPI_ENOINIT, es |-> event_sets]
    ELSE IF h <= 0 \/ h >= MAX_EVENT_SETS THEN [rc |-> PAPI_EINVAL, es |-> event_sets]
    ELSE IF Slot(h).id = 0 THEN [rc |-> PAPI_EINVAL, es |-> event_sets]
    ELSE LET num == Slot(h).num_events
         IN  IF num >= MAX_EVENTS
             THEN [rc |-> PAPI_ECNFLCT, es |-> event_sets]
             ELSE [rc |-> PAPI_OK,
                   es |-> SetSlot(h, [Slot(h) EXCEPT
                                        !.events = Put(@, num + 1, Event),
                                        !.num_events = num + 1])]

\* variant: the limit is tested with > in place of >=
PAPI_add_event_limit_off_by_one(h, Event) ==
    IF papi_initialized = 0 THEN [rc |-> PAPI_ENOINIT, es |-> event_sets]
    ELSE IF h <= 0 \/ h >= MAX_EVENT_SETS THEN [rc |-> PAPI_EINVAL, es |-> event_sets]
    ELSE IF Slot(h).id = 0 THEN [rc |-> PAPI_EINVAL, es |-> event_sets]
    ELSE LET num == Slot(h).num_events
         IN  IF num > MAX_EVENTS
             THEN [rc |-> PAPI_ECNFLCT, es |-> event_sets]
             ELSE [rc |-> PAPI_OK,
                   es |-> SetSlot(h, [Slot(h) EXCEPT
                                        !.events = Put(@, num, Event),
                                        !.num_events = num + 1])]

PAPI_add_event(h, Event) ==
    IF papi_initialized = 0 THEN [rc |-> PAPI_ENOINIT, es |-> event_sets]
    ELSE IF h <= 0 \/ h >= MAX_EVENT_SETS THEN [rc |-> PAPI_EINVAL, es |-> event_sets]
    ELSE IF Slot(h).id = 0 THEN [rc |-> PAPI_EINVAL, es |-> event_sets]
    ELSE LET num == Slot(h).num_events
         IN  IF num >= MAX_EVENTS
             THEN [rc |-> PAPI_ECNFLCT, es |-> event_sets]
             ELSE [rc |-> PAPI_OK,
                   es |-> SetSlot(h, [Slot(h) EXCEPT
                                        !.events = Put(@, num, Event),
                                        !.num_events = num + 1])]

\* variant: the check of the slot's id is missing
PAPI_start_without_id_check(h) ==
    IF papi_initialized = 0 THEN [rc |-> PAPI_ENOINIT, es |-> event_sets]
    ELSE IF h <= 0 \/ h >= MAX_EVENT_SETS THEN [rc |-> PAPI_EINVAL, es |-> event_sets]
    ELSE [rc |-> PAPI_OK,
          es |-> SetSlot(h, SampleStart([Slot(h) EXCEPT !.running = 1]))]

\* variant: the check of papi_initialized is missing
PAPI_start_without_init_check(h) ==
    IF h <= 0 \/ h >= MAX_EVENT_SETS THEN [rc |-> PAPI_EINVAL, es |-> event_sets]
    ELSE IF Slot(h).id = 0 THEN [rc |-> PAPI_EINVAL, es |-> event_sets]
    ELSE [rc |-> PAPI_OK,
          es |-> SetSlot(h, SampleStart([Slot(h) EXCEPT !.running = 1]))]

\* variant: an event set without members is refused
PAPI_start_requires_members(h) ==
    IF papi_initialized = 0 THEN [rc |-> PAPI_ENOINIT, es |-> event_sets]
    ELSE IF h <= 0 \/ h >= MAX_EVENT_SETS THEN [rc |-> PAPI_EINVAL, es |-> event_sets]
    ELSE IF Slot(h).id = 0 THEN [rc |-> PAPI_EINVAL, es |-> event_sets]
    ELSE IF Slot(h).num_events = 0 THEN [rc |-> PAPI_EINVAL, es |-> event_sets]
    ELSE [rc |-> PAPI_OK,
          es |-> SetSlot(h, SampleStart([Slot(h) EXCEPT !.running = 1]))]

PAPI_start(h) ==
    IF papi_initialized = 0 THEN [rc |-> PAPI_ENOINIT, es |-> event_sets]
    ELSE IF h <= 0 \/ h >= MAX_EVENT_SETS THEN [rc |-> PAPI_EINVAL, es |-> event_sets]
    ELSE IF Slot(h).id = 0 THEN [rc |-> PAPI_EINVAL, es |-> event_sets]
    ELSE [rc |-> PAPI_OK,
          es |-> SetSlot(h, SampleStart([Slot(h) EXCEPT !.running = 1]))]

\* variant: the baseline is moved to the values just read
PAPI_read_rebaselines(h) ==
    IF papi_initialized = 0 THEN [rc |-> PAPI_ENOINIT, es |-> event_sets, values |-> <<>>]
    ELSE IF h <= 0 \/ h >= MAX_EVENT_SETS
         THEN [rc |-> PAPI_EINVAL, es |-> event_sets, values |-> <<>>]
    ELSE IF Slot(h).id = 0
         THEN [rc |-> PAPI_EINVAL, es |-> event_sets, values |-> <<>>]
    ELSE IF Slot(h).running = 0
         THEN [rc |-> PAPI_ENOTRUN, es |-> event_sets, values |-> <<>>]
    ELSE [rc |-> PAPI_OK,
          es |-> SetSlot(h, SampleStart(Slot(h))),
          values |-> [k \in 1 .. Slot(h).num_events |->
                        CounterOf(Get(Slot(h).events, k - 1))
                          - Get(Slot(h).start_values, k - 1)]]

\* variant: the check of `running` is missing
PAPI_read_without_running_check(h) ==
    IF papi_initialized = 0 THEN [rc |-> PAPI_ENOINIT, es |-> event_sets, values |-> <<>>]
    ELSE IF h <= 0 \/ h >= MAX_EVENT_SETS
         THEN [rc |-> PAPI_EINVAL, es |-> event_sets, values |-> <<>>]
    ELSE IF Slot(h).id = 0
         THEN [rc |-> PAPI_EINVAL, es |-> event_sets, values |-> <<>>]
    ELSE [rc |-> PAPI_OK,
          es |-> event_sets,
          values |-> [k \in 1 .. Slot(h).num_events |->
                        CounterOf(Get(Slot(h).events, k - 1))
                          - Get(Slot(h).start_values, k - 1)]]

\* `values` holds what the call wrote to values[0 .. num_events-1]
PAPI_read(h) ==
    IF papi_initialized = 0 THEN [rc |-> PAPI_ENOINIT, es |-> event_sets, values |-> <<>>]
    ELSE IF h <= 0 \/ h >= MAX_EVENT_SETS
         THEN [rc |-> PAPI_EINVAL, es |-> event_sets, values |-> <<>>]
    ELSE IF Slot(h).id = 0
         THEN [rc |-> PAPI_EINVAL, es |-> event_sets, values |-> <<>>]
    ELSE IF Slot(h).running = 0
         THEN [rc |-> PAPI_ENOTRUN, es |-> event_sets, values |-> <<>>]
    ELSE [rc |-> PAPI_OK,
          es |-> event_sets,
          values |-> [k \in 1 .. Slot(h).num_events |->
                        CounterOf(Get(Slot(h).events, k - 1))
                          - Get(Slot(h).start_values, k - 1)]]

\* variant: `running` is left set
PAPI_stop_keeps_running(h) ==
    LET ret == PAPI_read(h)
    IN  IF ret.rc # PAPI_OK
        THEN ret
        ELSE [rc |-> PAPI_OK, es |-> event_sets, values |-> ret.values]

\* variant: `running` is cleared before the counters are read
PAPI_stop_clears_running_first(h) ==
    IF PAPI_read(h).rc # PAPI_OK
    THEN PAPI_read(h)
    ELSE [rc |-> PAPI_ENOTRUN,
          es |-> SetSlot(h, [Slot(h) EXCEPT !.running = 0]),
          values |-> <<>>]

PAPI_stop(h) ==
    LET ret == PAPI_read(h)
    IN  IF ret.rc # PAPI_OK
        THEN ret
        ELSE [rc |-> PAPI_OK,
              es |-> SetSlot(h, [Slot(h) EXCEPT !.running = 0]),
              values |-> ret.values]

\* variant: the baseline of every allocated event set is moved
PAPI_reset_every_set(h) ==
    IF papi_initialized = 0 THEN [rc |-> PAPI_ENOINIT, es |-> event_sets]
    ELSE IF h <= 0 \/ h >= MAX_EVENT_SETS THEN [rc |-> PAPI_EINVAL, es |-> event_sets]
    ELSE IF Slot(h).id = 0 THEN [rc |-> PAPI_EINVAL, es |-> event_sets]
    ELSE [rc |-> PAPI_OK,
          es |-> [s \in DOMAIN event_sets |->
                    IF event_sets[s].id # 0
                    THEN SampleStart(event_sets[s]) ELSE event_sets[s]]]

\* variant: the baseline of every member is set to zero
PAPI_reset_zeroes_baseline(h) ==
    IF papi_initialized = 0 THEN [rc |-> PAPI_ENOINIT, es |-> event_sets]
    ELSE IF h <= 0 \/ h >= MAX_EVENT_SETS THEN [rc |-> PAPI_EINVAL, es |-> event_sets]
    ELSE IF Slot(h).id = 0 THEN [rc |-> PAPI_EINVAL, es |-> event_sets]
    ELSE [rc |-> PAPI_OK,
          es |-> SetSlot(h, [Slot(h) EXCEPT !.start_values =
                    [i \in {j \in DOMAIN @ : j >= Slot(h).num_events} |-> @[i]]])]

PAPI_reset(h) ==
    IF papi_initialized = 0 THEN [rc |-> PAPI_ENOINIT, es |-> event_sets]
    ELSE IF h <= 0 \/ h >= MAX_EVENT_SETS THEN [rc |-> PAPI_EINVAL, es |-> event_sets]
    ELSE IF Slot(h).id = 0 THEN [rc |-> PAPI_EINVAL, es |-> event_sets]
    ELSE [rc |-> PAPI_OK, es |-> SetSlot(h, SampleStart(Slot(h)))]

\* variant: the check of `running` is missing
PAPI_cleanup_eventset_without_running_check(h) ==
    IF papi_initialized = 0 THEN [rc |-> PAPI_ENOINIT, es |-> event_sets]
    ELSE IF h <= 0 \/ h >= MAX_EVENT_SETS THEN [rc |-> PAPI_EINVAL, es |-> event_sets]
    ELSE IF Slot(h).id = 0 THEN [rc |-> PAPI_EINVAL, es |-> event_sets]
    ELSE [rc |-> PAPI_OK, es |-> SetSlot(h, [Slot(h) EXCEPT !.num_events = 0])]

\* variant: the members are dropped before `running` is checked
PAPI_cleanup_eventset_clears_before_check(h) ==
    IF papi_initialized = 0 THEN [rc |-> PAPI_ENOINIT, es |-> event_sets]
    ELSE IF h <= 0 \/ h >= MAX_EVENT_SETS THEN [rc |-> PAPI_EINVAL, es |-> event_sets]
    ELSE IF Slot(h).id = 0 THEN [rc |-> PAPI_EINVAL, es |-> event_sets]
    ELSE [rc |-> IF Slot(h).running # 0 THEN PAPI_EISRUN ELSE PAPI_OK,
          es |-> SetSlot(h, [Slot(h) EXCEPT !.num_events = 0])]

PAPI_cleanup_eventset(h) ==
    IF papi_initialized = 0 THEN [rc |-> PAPI_ENOINIT, es |-> event_sets]
    ELSE IF h <= 0 \/ h >= MAX_EVENT_SETS THEN [rc |-> PAPI_EINVAL, es |-> event_sets]
    ELSE IF Slot(h).id = 0 THEN [rc |-> PAPI_EINVAL, es |-> event_sets]
    ELSE IF Slot(h).running # 0 THEN [rc |-> PAPI_EISRUN, es |-> event_sets]
    ELSE [rc |-> PAPI_OK, es |-> SetSlot(h, [Slot(h) EXCEPT !.num_events = 0])]

\* variant: the members are cleared and the id is kept
PAPI_destroy_eventset_keeps_id(h) ==
    IF papi_initialized = 0 THEN [rc |-> PAPI_ENOINIT, es |-> event_sets]
    ELSE IF h <= 0 \/ h >= MAX_EVENT_SETS THEN [rc |-> PAPI_EINVAL, es |-> event_sets]
    ELSE IF Slot(h).id = 0 THEN [rc |-> PAPI_EINVAL, es |-> event_sets]
    ELSE IF Slot(h).running # 0 THEN [rc |-> PAPI_EISRUN, es |-> event_sets]
    ELSE [rc |-> PAPI_OK, es |-> SetSlot(h, [Slot(h) EXCEPT !.num_events = 0])]

\* variant: the check of `running` is missing
PAPI_destroy_eventset_without_running_check(h) ==
    IF papi_initialized = 0 THEN [rc |-> PAPI_ENOINIT, es |-> event_sets]
    ELSE IF h <= 0 \/ h >= MAX_EVENT_SETS THEN [rc |-> PAPI_EINVAL, es |-> event_sets]
    ELSE IF Slot(h).id = 0 THEN [rc |-> PAPI_EINVAL, es |-> event_sets]
    ELSE [rc |-> PAPI_OK, es |-> SetSlot(h, [Slot(h) EXCEPT !.id = 0])]

\* variant: an event set that still has members is refused
PAPI_destroy_eventset_requires_empty(h) ==
    IF papi_initialized = 0 THEN [rc |-> PAPI_ENOINIT, es |-> event_sets]
    ELSE IF h <= 0 \/ h >= MAX_EVENT_SETS THEN [rc |-> PAPI_EINVAL, es |-> event_sets]
    ELSE IF Slot(h).id = 0 THEN [rc |-> PAPI_EINVAL, es |-> event_sets]
    ELSE IF Slot(h).running # 0 THEN [rc |-> PAPI_EISRUN, es |-> event_sets]
    ELSE IF Slot(h).num_events # 0 THEN [rc |-> PAPI_EINVAL, es |-> event_sets]
    ELSE [rc |-> PAPI_OK, es |-> SetSlot(h, [Slot(h) EXCEPT !.id = 0])]

PAPI_destroy_eventset(h) ==
    IF papi_initialized = 0 THEN [rc |-> PAPI_ENOINIT, es |-> event_sets]
    ELSE IF h <= 0 \/ h >= MAX_EVENT_SETS THEN [rc |-> PAPI_EINVAL, es |-> event_sets]
    ELSE IF Slot(h).id = 0 THEN [rc |-> PAPI_EINVAL, es |-> event_sets]
    ELSE IF Slot(h).running # 0 THEN [rc |-> PAPI_EISRUN, es |-> event_sets]
    ELSE [rc |-> PAPI_OK, es |-> SetSlot(h, [Slot(h) EXCEPT !.id = 0])]

\* variant: the check of papi_initialized is missing
PAPI_num_events_without_init_check(h) ==
    IF h <= 0 \/ h >= MAX_EVENT_SETS THEN PAPI_EINVAL
    ELSE IF Slot(h).id = 0 THEN PAPI_EINVAL
    ELSE Slot(h).num_events

PAPI_num_events(h) ==
    IF papi_initialized = 0 THEN PAPI_ENOINIT
    ELSE IF h <= 0 \/ h >= MAX_EVENT_SETS THEN PAPI_EINVAL
    ELSE IF Slot(h).id = 0 THEN PAPI_EINVAL
    ELSE Slot(h).num_events

\* PAPI_list_events is declared by papi.h and has no definition in
\* papi_impl.c; it is modelled from the contract of listEvents: the same
\* argument checks as its siblings, then the members in insertion order.
PAPI_list_events(h, number) ==
    IF papi_initialized = 0 THEN [rc |-> PAPI_ENOINIT, Events |-> <<>>]
    ELSE IF h <= 0 \/ h >= MAX_EVENT_SETS THEN [rc |-> PAPI_EINVAL, Events |-> <<>>]
    ELSE IF Slot(h).id = 0 THEN [rc |-> PAPI_EINVAL, Events |-> <<>>]
    ELSE LET n == IF number < Slot(h).num_events
                  THEN number ELSE Slot(h).num_events
         IN  [rc |-> PAPI_OK,
              Events |-> [k \in 1 .. n |-> Get(Slot(h).events, k - 1)]]

\* ffi.new("T[]", n) is zero-filled; the native call overwrites a prefix,
\* and the wrapper unpacks the first n items
Unpack(written, n) ==
    [k \in 1 .. n |-> IF k <= Len(written) THEN written[k] ELSE 0]

(***************************************************************************)
(* core.py: the wrappers.  Each yields the outcome of the call and the     *)
(* native state after it.                                                  *)
(***************************************************************************)
library_init(version) ==
    LET r == PAPI_library_init(version)
    IN  [out |-> papi_error(r.rc, IntVal(r.rc)), init |-> r.init, es |-> r.es]

shutdown ==
    LET r == PAPI_shutdown
    IN  [out |-> None, init |-> r.init, es |-> r.es]

is_initialized ==
    LET rcode == PAPI_is_initialized
    IN  [out |-> papi_error(rcode, BoolVal(rcode)),
         init |-> papi_initialized, es |-> event_sets]

create_eventset ==
    LET r == PAPI_create_eventset
    IN  [out |-> papi_error(r.rc, IntVal(r.EventSet)),
         init |-> papi_initialized, es |-> r.es]

add_event(eventSet, eventCode) ==
    LET r == PAPI_add_event(eventSet, eventCode)
    IN  [out |-> papi_error(r.rc, None), init |-> papi_initialized, es |-> r.es]

\* variant: the array has MAX_EVENTS items and all of them are returned
list_events_returns_whole_array(eventSet) ==
    LET rcode == PAPI_num_events(eventSet)
    IN  IF rcode < 0
        THEN [out |-> papi_error(rcode, ListVal(<<>>)),
              init |-> papi_initialized, es |-> event_sets]
        ELSE LET number == rcode
                 r == PAPI_list_events(eventSet, number)
             IN  [out |-> IF r.rc = 0
                          THEN papi_error(r.rc, ListVal(Unpack(r.Events, MAX_EVENTS)))
                          ELSE papi_error(r.rc, ListVal(<<>>)),
                  init |-> papi_initialized, es |-> event_sets]

list_events(eventSet) ==
    LET rcode == PAPI_num_events(eventSet)
    IN  IF rcode < 0
        THEN [out |-> papi_error(rcode, ListVal(<<>>)),
              init |-> papi_initialized, es |-> event_sets]
        ELSE LET number == rcode
                 r == PAPI_list_events(eventSet, number)
             IN  [out |-> IF r.rc = 0
                          THEN papi_error(r.rc, ListVal(Unpack(r.Events, number)))
                          ELSE papi_error(r.rc, ListVal(<<>>)),
                  init |-> papi_initialized, es |-> event_sets]

num_events(eventSet) ==
    LET rcode == PAPI_num_events(eventSet)
    IN  [out |-> papi_error(rcode, IntVal(rcode)),
         init |-> papi_initialized, es |-> event_sets]

cleanup_eventset(eventSet) ==
    LET r == PAPI_cleanup_eventset(eventSet)
    IN  [out |-> papi_error(r.rc, None), init |-> papi_initialized, es |-> r.es]

destroy_eventset(eventSet) ==
    LET r == PAPI_destroy_eventset(eventSet)
    IN  [out |-> papi_error(r.rc, None), init |-> papi_initialized, es |-> r.es]

start(eventSet) ==
    LET r == PAPI_start(eventSet)
    IN  [out |-> papi_error(r.rc, None), init |-> papi_initialized, es |-> r.es]

\* variant: the buffer has MAX_EVENTS items and is unpacked whole
stop_unpacks_whole_buffer(eventSet) ==
    LET eventCount == PAPI_num_events(eventSet)
    IN  IF eventCount < 0
        THEN [out |-> papi_error(eventCount, ListVal(<<>>)),
              init |-> papi_initialized, es |-> event_sets]
        ELSE LET r == PAPI_stop(eventSet)
             IN  [out |-> IF r.rc = 0
                          THEN papi_error(r.rc, ListVal(Unpack(r.values, MAX_EVENTS)))
                          ELSE papi_error(r.rc, ListVal(<<>>)),
                  init |-> papi_initialized, es |-> r.es]

stop(eventSet) ==
    LET eventCount == PAPI_num_events(eventSet)
    IN  IF eventCount < 0
        THEN [out |-> papi_error(eventCount, ListVal(<<>>)),
              init |-> papi_initialized, es |-> event_sets]
        ELSE LET r == PAPI_stop(eventSet)
             IN  [out |-> IF r.rc = 0
                          THEN papi_error(r.rc, ListVal(Unpack(r.values, eventCount)))
                          ELSE papi_error(r.rc, ListVal(<<>>)),
                  init |-> papi_initialized, es |-> r.es]

\* variant: a negative first count is taken for the status
read_status_from_count(eventSet) ==
    LET eventCount == PAPI_num_events(eventSet)
    IN  IF eventCount < 0
        THEN [out |-> papi_error(eventCount, ListVal(<<>>)),
              init |-> papi_initialized, es |-> event_sets]
        ELSE LET r == PAPI_read(eventSet)
                 counts == Unpack(r.values, eventCount)
             IN  [out |-> IF r.rc = 0
                          THEN papi_error(IF counts # <<>> /\ counts[1] < 0
                                          THEN counts[1] ELSE r.rc,
                                          ListVal(counts))
                          ELSE papi_error(r.rc, ListVal(<<>>)),
                  init |-> papi_initialized, es |-> r.es]

\* variant: a failure of PAPI_read is reported as success with no values
read_empty_on_failure(eventSet) ==
    LET eventCount == PAPI_num_events(eventSet)
    IN  IF eventCount < 0
        THEN [out |-> papi_error(eventCount, ListVal(<<>>)),
              init |-> papi_initialized, es |-> event_sets]
        ELSE LET r == PAPI_read(eventSet)
             IN  [out |-> IF r.rc = 0
                          THEN papi_error(r.rc, ListVal(Unpack(r.values, eventCount)))
                          ELSE papi_error(0, ListVal(<<>>)),
                  init |-> papi_initialized, es |-> r.es]

read(eventSet) ==
    LET eventCount == PAPI_num_events(eventSet)
    IN  IF eventCount < 0
        THEN [out |-> papi_error(eventCount, ListVal(<<>>)),
              init |-> papi_initialized, es |-> event_sets]
        ELSE LET r == PAPI_read(eventSet)
             IN  [out |-> IF r.rc = 0
                          THEN papi_error(r.rc, ListVal(Unpack(r.values, eventCount)))
                          ELSE papi_error(r.rc, ListVal(<<>>)),
                  init |-> papi_initialized, es |-> r.es]

reset(eventSet) ==
    LET r == PAPI_reset(eventSet)
    IN  [out |-> papi_error(r.rc, None), init |-> papi_initialized, es |-> r.es]

PAPI_get_real_cyc == get_cycles

\* the status of get_real_cyc is the constant 0, the count is its result
get_real_cyc ==
    LET rcode == PAPI_get_real_cyc
    IN  [out |-> papi_error(0, IntVal(rcode)),
         init |-> papi_initialized, es |-> event_sets]

(***************************************************************************)
(* The inputs of the calls.                                                *)
(***************************************************************************)
\* handles when at most n slots get allocated: 0 and MAX_EVENT_SETS are out
\* of range, n + 1 is in range and never allocated
HandlesUpTo(n) == (0 .. (n + 1)) \cup {MAX_EVENT_SETS}
Handles == HandlesUpTo(MaxSets)
Codes == {PAPI_TOT_CYC, PAPI_TOT_INS}
Versions == {PAPI_VER_CURRENT, 0}

Allocated == {s \in Slots : Slot(s).id # 0}

\* an event set is live when the subsystem is initialized and its slot is
\* allocated
Live(h) == papi_initialized # 0 /\ h \in Slots /\ Slot(h).id # 0

Running(h) == Live(h) /\ Slot(h).running # 0

Stopped(h) == Live(h) /\ Slot(h).running = 0

Failed(out) == out.kind = "raise"

\* the members of an event set, in the order of events[0 .. num_events-1]
Members(h) == [k \in 1 .. Slot(h).num_events |-> Get(Slot(h).events, k - 1)]

(***************************************************************************)
(* The calls as steps: `last` records the call and its outcome.            *)
(***************************************************************************)
Call(op, r) ==
    /\ last' = [op |-> op, out |-> r.out]
    /\ papi_initialized' = r.init
    /\ event_sets' = r.es
    /\ UNCHANGED <<tsc, jiffies>>

do_library_init(version) ==
    /\ Call("library_init", library_init(version))
    /\ adds' = IF papi_initialized = 0 THEN [s \in Slots |-> <<>>] ELSE adds

do_shutdown ==
    /\ Call("shutdown", shutdown)
    /\ UNCHANGED adds

do_is_initialized ==
    /\ Call("is_initialized", is_initialized)
    /\ UNCHANGED adds

do_create_eventset ==
    LET r == create_eventset
    IN  /\ Call("create_eventset", r)
        /\ adds' = IF Failed(r.out) THEN adds
                   ELSE [adds EXCEPT ![r.out.int] = <<>>]

do_add_event(h, code) ==
    LET r == add_event(h, code)
    IN  /\ Call("add_event", r)
        /\ adds' = IF Failed(r.out) THEN adds
                   ELSE [adds EXCEPT ![h] = Append(@, code)]

do_list_events(h) ==
    /\ Call("list_events", list_events(h))
    /\ UNCHANGED adds

do_num_events(h) ==
    /\ Call("num_events", num_events(h))
    /\ UNCHANGED adds

do_cleanup_eventset(h) ==
    LET r == cleanup_eventset(h)
    IN  /\ Call("cleanup_eventset", r)
        /\ adds' = IF Failed(r.out) THEN adds ELSE [adds EXCEPT ![h] = <<>>]

do_destroy_eventset(h) ==
    LET r == destroy_eventset(h)
    IN  /\ Call("destroy_eventset", r)
        /\ adds' = IF Failed(r.out) THEN adds ELSE [adds EXCEPT ![h] = <<>>]

do_start(h) ==
    /\ Call("start", start(h))
    /\ UNCHANGED adds

do_stop(h) ==
    /\ Call("stop", stop(h))
    /\ UNCHANGED adds

do_read(h) ==
    /\ Call("read", read(h))
    /\ UNCHANGED adds

do_reset(h) ==
    /\ Call("reset", reset(h))
    /\ UNCHANGED adds

\* the counters advance while the program computes
Tick ==
    /\ tsc < MaxTsc
    /\ tsc' = tsc + 1
    /\ UNCHANGED <<papi_initialized, event_sets, jiffies, last, adds>>

CpuTick ==
    /\ jiffies < MaxJiffies
    /\ jiffies' = jiffies + 1
    /\ UNCHANGED <<papi_initialized, event_sets, tsc, last, adds>>

\* what an exploration leaves out: more than maxSets allocated slots and
\* more than maxMembers members
CanCreate(maxSets) ==
    IF papi_initialized = 0 THEN TRUE ELSE Cardinality(Allocated) < maxSets

CanAdd(h, maxMembers) ==
    IF Live(h) THEN Slot(h).num_events < maxMembers ELSE TRUE

Init ==
    /\ papi_initialized = 0
    /\ event_sets = Zeroed
    /\ tsc = 0
    /\ jiffies = 0
    /\ last = [op |-> "", out |-> None]
    /\ adds = [s \in Slots |-> <<>>]
    /\ invalidated = {}
    /\ main = [pc |-> "free", eventset |-> 0]
    /\ wrapped = [rcode |-> 0, result |-> None, out |-> IntVal(0)]

(***************************************************************************)
(* Spec: one event set at a time, followed through its whole life while    *)
(* the counters advance.                                                   *)
(***************************************************************************)
Step ==
    \/ \E version \in Versions : do_library_init(version)
    \/ do_shutdown
    \/ do_is_initialized
    \/ CanCreate(MaxSets) /\ do_create_eventset
    \/ \E h \in Handles, code \in Codes : CanAdd(h, MaxMembers) /\ do_add_event(h, code)
    \/ \E h \in Handles : do_list_events(h)
    \/ \E h \in Handles : do_num_events(h)
    \/ \E h \in Handles : do_cleanup_eventset(h)
    \/ \E h \in Handles : do_destroy_eventset(h)
    \/ \E h \in Handles : do_start(h)
    \/ \E h \in Handles : do_stop(h)
    \/ \E h \in Handles : do_read(h)
    \/ \E h \in Handles : do_reset(h)
    \/ Tick
    \/ CpuTick

Next == Step /\ UNCHANGED <<invalidated, main, wrapped>>

Spec == Init /\ [][Next]_vars

(***************************************************************************)
(* Properties of Spec.                                                     *)
(***************************************************************************)
NotInitialized == Raised("PapiNotInitializedError", PAPI_ENOINIT)
IsRunning == Raised("PapiIsRunningError", PAPI_EISRUN)
NotRunning == Raised("PapiNotRunningError", PAPI_ENOTRUN)

\* C1: start on a live Running event set raises PapiIsRunningError and the
\* event set is Running afterwards.
C1_StartOnRunningRaises ==
    [][\A h \in Handles :
         (Running(h) /\ do_start(h)) =>
            (last'.out = IsRunning /\ Running(h)')]_vars

\* C2: for every live event set, num_events returns the number of add_event
\* calls that succeeded on it and list_events returns the codes they added,
\* in the order of the calls.
C2_AddsCountedInOrder ==
    \A h \in Handles :
        Live(h) =>
            /\ num_events(h).out = IntVal(Len(adds[h]))
            /\ list_events(h).out = ListVal(adds[h])

C2_Witness ==
    \E h \in Handles :
        /\ Stopped(h)
        /\ Len(adds[h]) = 2
        /\ adds[h][1] # adds[h][2]
        /\ last.op = "list_events"
        /\ last.out = ListVal(adds[h])

\* C3: read on a live Stopped event set raises PapiNotRunningError, returns
\* no values and changes nothing.
C3_ReadOnStoppedRaises ==
    \A h \in Handles :
        Stopped(h) =>
            /\ read(h).out = NotRunning
            /\ read(h).es = event_sets
            /\ read(h).init = papi_initialized

C3_Witness ==
    /\ last.op = "read"
    /\ last.out = NotRunning
    /\ \E h \in Handles : Stopped(h) /\ Slot(h).num_events > 0

\* C4: destroy_eventset on a Running event set raises PapiIsRunningError and
\* leaves the event set live, with the same members and Running.
C4_DestroyOnRunningRaises ==
    \A h \in Handles :
        Running(h) =>
            /\ destroy_eventset(h).out = IsRunning
            /\ destroy_eventset(h).es = event_sets
            /\ destroy_eventset(h).init = papi_initialized

C4_Witness ==
    /\ last.op = "destroy_eventset"
    /\ last.out = IsRunning
    /\ \E h \in Handles : Running(h) /\ Slot(h).num_events > 0

\* C5: while the subsystem is not initialized, every event-set operation,
\* with any handle, raises PapiNotInitializedError.
C5_UninitializedRaises ==
    papi_initialized = 0 =>
        /\ create_eventset.out = NotInitialized
        /\ \A h \in Handles :
              /\ \A code \in Codes : add_event(h, code).out = NotInitialized
              /\ start(h).out = NotInitialized
              /\ read(h).out = NotInitialized
              /\ stop(h).out = NotInitialized
              /\ reset(h).out = NotInitialized
              /\ cleanup_eventset(h).out = NotInitialized
              /\ destroy_eventset(h).out = NotInitialized
              /\ num_events(h).out = NotInitialized
              /\ list_events(h).out = NotInitialized

\* a call after a shutdown that left an allocated, running slot behind
C5_Witness ==
    /\ papi_initialized = 0
    /\ \E s \in Allocated : Slot(s).running # 0 /\ Slot(s).num_events > 0
    /\ last.op = "stop"
    /\ last.out = NotInitialized

\* C6: a read or stop that succeeds returns a list with as many values as
\* the event set has members (what num_events returns at that time).
C6_SnapshotLength ==
    \A h \in Handles :
        /\ ~Failed(read(h).out) =>
              /\ read(h).out.kind = "list"
              /\ num_events(h).out = IntVal(Len(read(h).out.list))
        /\ ~Failed(stop(h).out) =>
              /\ stop(h).out.kind = "list"
              /\ num_events(h).out = IntVal(Len(stop(h).out.list))

\* stop has returned two values for a two-member event set
C6_Witness ==
    /\ last.op = "stop"
    /\ last.out.kind = "list"
    /\ Len(last.out.list) = 2
    /\ \E h \in Handles : Stopped(h) /\ Slot(h).num_events = 2

\* C9: library_init on an initialized subsystem returns the current version
\* and changes no event set.
C9_InitIdempotent ==
    papi_initialized # 0 =>
        \A version \in Versions :
            /\ library_init(version).out = IntVal(PAPI_VER_CURRENT)
            /\ library_init(version).es = event_sets
            /\ library_init(version).init = papi_initialized

\* library_init has been called with a running two-member event set whose
\* baseline is not zero
C9_Witness ==
    /\ last.op = "library_init"
    /\ last.out = IntVal(PAPI_VER_CURRENT)
    /\ \E h \in Handles :
          /\ Running(h)
          /\ Slot(h).num_events = 2
          /\ Get(Slot(h).start_values, 0) # 0

\* C13: the event set whose identifier create_eventset returns is live and
\* Stopped and has no members: num_events returns 0, list_events returns the
\* empty list and read is refused with PapiNotRunningError.
C13_CreatedStoppedAndEmpty ==
    [][(last'.op = "create_eventset" /\ do_create_eventset /\ ~Failed(last'.out)) =>
          \E h \in Slots :
             /\ last'.out = IntVal(h)
             /\ Stopped(h)'
             /\ (num_events(h).out)' = IntVal(0)
             /\ (list_events(h).out)' = ListVal(<<>>)
             /\ (read(h).out)' = NotRunning]_vars

\* create_eventset has returned an identifier whose slot still stores the
\* two members and the baseline of the event set that held it before
C13_Witness ==
    /\ last.op = "create_eventset"
    /\ ~Failed(last.out)
    /\ Stopped(last.out.int)
    /\ DOMAIN Slot(last.out.int).events = {0, 1}
    /\ DOMAIN Slot(last.out.int).start_values # {}

\* C16: add_event on a Running event set raises and leaves every event set
\* as it was.
C16_AddOnRunningRaises ==
    [][\A h \in Handles, code \in Codes :
         (last'.op = "add_event" /\ Running(h) /\ do_add_event(h, code)) =>
            (Failed(last'.out) /\ event_sets' = event_sets)]_vars

\* C17: add_event of a code that is already a member of the event set
\* raises and leaves every event set as it was.
C17_DuplicateAddRaises ==
    [][\A h \in Handles, code \in Codes :
         (/\ last'.op = "add_event"
          /\ Live(h)
          /\ \E k \in DOMAIN Members(h) : Members(h)[k] = code
          /\ do_add_event(h, code)) =>
            (Failed(last'.out) /\ event_sets' = event_sets)]_vars

InvalidValue == Raised("PapiInvalidValueError", PAPI_EINVAL)

\* C19: with the subsystem initialized, start with a handle that is out of
\* range, was never issued or belongs to a destroyed event set raises
\* PapiInvalidValueError and changes nothing.
C19_StartOnUnknownHandle ==
    papi_initialized # 0 =>
        \A h \in Handles \cup {PAPI_NULL, MAX_EVENT_SETS + 1} :
            ~Live(h) =>
                /\ start(h).out = InvalidValue
                /\ start(h).es = event_sets
                /\ start(h).init = papi_initialized

\* start has been refused while no event set is live and the slot of a
\* destroyed event set still stores its two members
C19_Witness ==
    /\ papi_initialized # 0
    /\ last.op = "start"
    /\ last.out = InvalidValue
    /\ Allocated = {}
    /\ \E s \in Slots : Slot(s).num_events = 2

\* C20: stop on a Running event set returns the list that read returns in
\* the same state and leaves the event set Stopped, with nothing else
\* changed; stop on a Stopped event set raises PapiNotRunningError and
\* changes nothing.
C20_StopReadsThenStops ==
    \A h \in Handles :
        /\ Running(h) =>
              /\ ~Failed(stop(h).out)
              /\ stop(h).out = read(h).out
              /\ stop(h).es = SetSlot(h, [Slot(h) EXCEPT !.running = 0])
              /\ stop(h).init = papi_initialized
        /\ Stopped(h) =>
              /\ stop(h).out = NotRunning
              /\ stop(h).es = event_sets
              /\ stop(h).init = papi_initialized

\* stop has returned two counts, one of them not zero, and the event set
\* is Stopped
C20_Witness ==
    /\ last.op = "stop"
    /\ last.out.kind = "list"
    /\ Len(last.out.list) = 2
    /\ last.out.list[1] # 0
    /\ \E h \in Handles : Stopped(h) /\ Slot(h).num_events = 2 /\ stop(h).out = NotRunning

\* C21: a read that succeeds changes no event set and leaves the event set
\* Running, and a read in the state it leaves returns the same list.
C21_ReadChangesNothing ==
    [][\A h \in Handles :
         (last'.op = "read" /\ do_read(h) /\ ~Failed(last'.out)) =>
            /\ event_sets' = event_sets
            /\ papi_initialized' = papi_initialized
            /\ Running(h)'
            /\ (read(h).out)' = last'.out]_vars

\* read has returned two counts, one of them not zero, and the event set is
\* Running with its two members
C21_Witness ==
    /\ last.op = "read"
    /\ last.out.kind = "list"
    /\ Len(last.out.list) = 2
    /\ last.out.list[1] # 0
    /\ \E h \in Handles : Running(h) /\ read(h).out = last.out

\* C22: reset on a live event set, Running or Stopped, succeeds, sets the
\* baseline of every member to the present value of its counter and leaves
\* the run state and the members as they were; on a Running event set a
\* read in the state it leaves returns a zero for every member.
C22_ResetRebaselines ==
    [][\A h \in Handles :
         (last'.op = "reset" /\ Live(h) /\ do_reset(h)) =>
            /\ ~Failed(last'.out)
            /\ Live(h)'
            /\ Slot(h)'.running = Slot(h).running
            /\ Members(h)' = Members(h)
            /\ \A k \in DOMAIN Members(h) :
                  Get(Slot(h)'.start_values, k - 1) = CounterOf(Members(h)[k])
            /\ Running(h) =>
                  (read(h).out)' = ListVal([k \in DOMAIN Members(h) |-> 0])]_vars

\* reset has moved the baseline of a Running two-member event set away from
\* zero
C22_Witness ==
    /\ last.op = "reset"
    /\ ~Failed(last.out)
    /\ \E h \in Handles :
          /\ Running(h)
          /\ Slot(h).num_events = 2
          /\ Get(Slot(h).start_values, 0) # 0
          /\ read(h).out = ListVal(<<0, 0>>)

\* C23: cleanup_eventset on a Stopped event set succeeds and leaves it live,
\* Stopped and without members (num_events returns 0); on a Running event
\* set it raises PapiIsRunningError and changes nothing.
C23_CleanupEmptiesStopped ==
    [][\A h \in Handles :
         (last'.op = "cleanup_eventset" /\ do_cleanup_eventset(h)) =>
            /\ Stopped(h) =>
                  /\ ~Failed(last'.out)
                  /\ Stopped(h)'
                  /\ (num_events(h).out)' = IntVal(0)
                  /\ (list_events(h).out)' = ListVal(<<>>)
            /\ Running(h) =>
                  /\ last'.out = IsRunning
                  /\ event_sets' = event_sets
                  /\ papi_initialized' = papi_initialized]_vars

\* cleanup_eventset has emptied a Stopped event set that had two members
C23_Witness ==
    /\ last.op = "cleanup_eventset"
    /\ ~Failed(last.out)
    /\ \E h \in Handles :
          /\ Stopped(h)
          /\ num_events(h).out = IntVal(0)
          /\ DOMAIN Slot(h).events = {0, 1}

\* C25: for every live event set, Running or Stopped, list_events returns a
\* list and num_events returns the length of that list.
C25_ListAndCountAgree ==
    \A h \in Handles :
        Live(h) =>
            /\ list_events(h).out.kind = "list"
            /\ num_events(h).out.kind = "int"
            /\ Len(list_events(h).out.list) = num_events(h).out.int

\* list_events has returned two codes for a Running event set
C25_Witness ==
    /\ last.op = "list_events"
    /\ last.out.kind = "list"
    /\ Len(last.out.list) = 2
    /\ \E h \in Handles : Running(h) /\ num_events(h).out = IntVal(2)

\* C27: is_initialized never raises and returns a boolean: False in the
\* initial state, False after every shutdown, True after every library_init
\* that succeeds, and what it returned before after every other call.
C27_IsInitializedTracksInit ==
    /\ is_initialized.out = BoolVal(0)
    /\ [][/\ (is_initialized.out)' \in {BoolVal(0), BoolVal(1)}
          /\ do_is_initialized => last'.out = is_initialized.out
          /\ do_shutdown => (is_initialized.out)' = BoolVal(0)
          /\ \A version \in Versions :
                (do_library_init(version) /\ ~Failed(last'.out)) =>
                    (is_initialized.out)' = BoolVal(1)
          /\ (last'.op \notin {"shutdown", "library_init"}) =>
                (is_initialized.out)' = is_initialized.out]_vars

\* is_initialized has returned False after a shutdown that left an allocated
\* slot behind
C27_Witness ==
    /\ last.op = "is_initialized"
    /\ last.out = BoolVal(0)
    /\ Allocated # {}

\* C29: a read or stop whose native statuses are not negative returns
\* exactly the counts that the native call wrote, negative ones included,
\* and a read or stop raises only when one of its native statuses is
\* negative.
C29_CountsAreNotStatuses ==
    \A h \in Handles :
        /\ (PAPI_num_events(h) >= 0 /\ PAPI_read(h).rc >= 0) =>
              read(h).out = ListVal(PAPI_read(h).values)
        /\ (PAPI_num_events(h) >= 0 /\ PAPI_stop(h).rc >= 0) =>
              stop(h).out = ListVal(PAPI_stop(h).values)
        /\ Failed(read(h).out) => (PAPI_num_events(h) < 0 \/ PAPI_read(h).rc < 0)
        /\ Failed(stop(h).out) => (PAPI_num_events(h) < 0 \/ PAPI_stop(h).rc < 0)

\* read has returned a negative count
C29_Witness ==
    /\ last.op = "read"
    /\ last.out.kind = "list"
    /\ \E k \in DOMAIN last.out.list : last.out.list[k] < 0
    /\ \E h \in Handles : Running(h) /\ read(h).out = last.out

\* event_sets[h] in the table `es` that a call leaves
SlotIn(es, h) == IF h \in DOMAIN es THEN es[h] ELSE EventSet

\* C32: a stop of a live Running event set succeeds, and in the state it
\* leaves both destroy_eventset and cleanup_eventset of that set succeed,
\* the destroy leaving the set not live; a live Stopped event set is
\* destroyed by destroy_eventset alone.
C32_StopThenDestroy ==
    [][/\ \A h \in Handles :
              Stopped(h) =>
                  /\ ~Failed(destroy_eventset(h).out)
                  /\ SlotIn(destroy_eventset(h).es, h).id = 0
       /\ (last'.op = "stop" /\ \E h \in Handles : Running(h) /\ do_stop(h)) =>
              \A h \in Handles :
                  (Running(h) /\ do_stop(h)) =>
                      /\ ~Failed(last'.out)
                      /\ Stopped(h)'
                      /\ ~Failed(destroy_eventset(h).out)'
                      /\ (SlotIn(destroy_eventset(h).es, h).id = 0)'
                      /\ ~Failed(cleanup_eventset(h).out)']_vars

\* a stop has just succeeded on an event set that has members, and a
\* destroy_eventset of it now succeeds
C32_Witness ==
    /\ last.op = "stop"
    /\ last.out.kind = "list"
    /\ Len(last.out.list) > 0
    /\ \E h \in Handles :
           /\ Stopped(h)
           /\ Slot(h).num_events = Len(last.out.list)
           /\ ~Failed(destroy_eventset(h).out)

\* C36: start of a live Stopped event set that has no members returns 0
\* and leaves it Running, and in the state after it read and stop both
\* return the empty list, the stop leaving the set Stopped.
C36_StartOfEmptySet ==
    [][\A h \in Handles :
         (last'.op = "start" /\ Stopped(h) /\ Slot(h).num_events = 0 /\ do_start(h)) =>
             /\ last'.out = IntVal(0)
             /\ Running(h)'
             /\ (Slot(h).num_events = 0)'
             /\ (read(h).out = ListVal(<<>>))'
             /\ (read(h).es = event_sets)'
             /\ (stop(h).out = ListVal(<<>>))'
             /\ (SlotIn(stop(h).es, h).running = 0)']_vars

\* read has just returned the empty list for a Running event set that has
\* no members
C36_Witness ==
    /\ last = [op |-> "read", out |-> ListVal(<<>>)]
    /\ \E h \in Handles :
           /\ Running(h)
           /\ Slot(h).num_events = 0
           /\ stop(h).out = ListVal(<<>>)

(***************************************************************************)
(* SpecTaxonomy: the decorator papi_error applied to every status and to   *)
(* every kind of result.                                                   *)
(***************************************************************************)
StatusCodes == (0 - MaxStatus) .. MaxStatus
Results == {None, IntVal(0), IntVal(7), BoolVal(1), ListVal(<<>>), ListVal(<<5>>)}

do_wrapped(rcode, result) ==
    /\ wrapped' = [rcode |-> rcode, result |-> result,
                   out |-> papi_error(rcode, result)]
    /\ UNCHANGED <<papi_initialized, event_sets, tsc, jiffies, last, adds,
                   invalidated, main>>

NextTaxonomy == \E rcode \in StatusCodes, result \in Results : do_wrapped(rcode, result)

SpecTaxonomy == Init /\ [][NextTaxonomy]_vars

TaxonomyCodes == (0 - Len(ErrorClasses)) .. (0 - 1)

\* C10: a decorated function whose status is the i-th code of the taxonomy
\* raises the i-th exception class, with that status as its code; no two
\* codes of the taxonomy raise the same class.
C10_TaxonomyExact ==
    /\ wrapped.rcode \in TaxonomyCodes =>
          wrapped.out = Raised(ErrorClasses[0 - wrapped.rcode], wrapped.rcode)
    /\ \A c \in TaxonomyCodes :
          (c # wrapped.rcode /\ wrapped.rcode \in TaxonomyCodes) =>
              papi_error(c, wrapped.result).exc # wrapped.out.exc

C10_Witness ==
    /\ wrapped.rcode = PAPI_EDELAY_INIT
    /\ wrapped.result = ListVal(<<5>>)
    /\ wrapped.out = Raised("PapiDelayInitError", 0 - 26)

Classified(rcode) ==
    Raised(IF rcode \in TaxonomyCodes THEN ErrorClasses[0 - rcode] ELSE "PapiError",
           rcode)

\* an outcome that propagates the statuses of the native calls made, in the
\* order of the calls: the first negative one as its exception, a value if
\* there is none
Propagates(out, statuses) ==
    LET failures == {k \in 1 .. Len(statuses) : statuses[k] < 0}
    IN  IF failures = {}
        THEN out.kind \in {"int", "bool", "list"}
        ELSE out = Classified(statuses[CHOOSE k \in failures :
                                          \A j \in failures : k <= j])

\* the statuses of a call of PAPI_num_events followed, if it succeeds, by a
\* call with status rc
AfterCount(h, rc) ==
    IF PAPI_num_events(h) < 0
    THEN <<PAPI_num_events(h)>>
    ELSE <<PAPI_num_events(h), rc>>

Goto(pc, eventset) ==
    main' = [pc |-> IF Failed(last'.out) THEN "failed" ELSE pc, eventset |-> eventset]

main_library_init ==
    /\ main.pc = "free"
    /\ papi_initialized = 0
    /\ do_library_init(PAPI_VER_CURRENT)
    /\ Goto("create_eventset", 0)

main_create_eventset ==
    /\ main.pc = "create_eventset"
    /\ do_create_eventset
    /\ Goto("add_event_cyc", last'.out.int)

main_add_event_cyc ==
    /\ main.pc = "add_event_cyc"
    /\ do_add_event(main.eventset, PAPI_TOT_CYC)
    /\ Goto("add_event_ins", main.eventset)

main_add_event_ins ==
    /\ main.pc = "add_event_ins"
    /\ do_add_event(main.eventset, PAPI_TOT_INS)
    /\ Goto("start", main.eventset)

main_start ==
    /\ main.pc = "start"
    /\ do_start(main.eventset)
    /\ Goto("stop", main.eventset)

\* the loop that main measures
main_compute ==
    /\ main.pc = "stop"
    /\ Tick \/ CpuTick
    /\ UNCHANGED main

main_stop ==
    /\ main.pc = "stop"
    /\ do_stop(main.eventset)
    /\ Goto("cleanup_eventset", main.eventset)

main_cleanup_eventset ==
    /\ main.pc = "cleanup_eventset"
    /\ do_cleanup_eventset(main.eventset)
    /\ Goto("destroy_eventset", main.eventset)

main_destroy_eventset ==
    /\ main.pc = "destroy_eventset"
    /\ do_destroy_eventset(main.eventset)
    /\ Goto("shutdown", main.eventset)

main_shutdown ==
    /\ main.pc = "shutdown"
    /\ do_shutdown
    /\ Goto("done", main.eventset)

NextExample ==
    \/ main.pc = "free" /\ Step /\ UNCHANGED <<invalidated, main, wrapped>>
    \/ /\ \/ main_library_init
          \/ main_create_eventset
          \/ main_add_event_cyc
          \/ main_add_event_ins
          \/ main_start
          \/ main_compute
          \/ main_stop
          \/ main_cleanup_eventset
          \/ main_destroy_eventset
          \/ main_shutdown
       /\ UNCHANGED <<invalidated, wrapped>>

SpecExample == Init /\ [][NextExample]_vars

\* C7: from an uninitialized subsystem, library_init, create_eventset,
\* add_event(PAPI_TOT_CYC), add_event(PAPI_TOT_INS), start, stop,
\* cleanup_eventset, destroy_eventset and shutdown all succeed, and stop
\* returns two values.
C7_ExampleSucceeds ==
    /\ main.pc # "failed"
    /\ main.pc = "cleanup_eventset" =>
          (last.op = "stop" /\ last.out.kind = "list" /\ Len(last.out.list) = 2)

\* main has run to its end and the counters advanced in its loop; the
\* subsystem is shut down again and no slot is allocated
C7_Witness ==
    /\ main.pc = "done"
    /\ tsc > 0
    /\ papi_initialized = 0
    /\ Allocated = {}

(***************************************************************************)
(* SpecShutdown: up to MaxSetsWide event sets, and the history of the      *)
(* slots that were allocated when shutdown was called.                     *)
(***************************************************************************)
HandlesWide == HandlesUpTo(MaxSetsWide)

do_shutdown_tracked ==
    /\ do_shutdown
    /\ invalidated' = invalidated \cup
                        (IF papi_initialized # 0 THEN Allocated ELSE {})

StepShutdown ==
    \/ \E version \in Versions : do_library_init(version)
    \/ CanCreate(MaxSetsWide) /\ do_create_eventset
    \/ \E h \in HandlesWide : CanAdd(h, 1) /\ do_add_event(h, PAPI_TOT_CYC)
    \/ \E h \in HandlesWide : do_list_events(h)
    \/ \E h \in HandlesWide : do_num_events(h)
    \/ \E h \in HandlesWide : do_cleanup_eventset(h)
    \/ \E h \in HandlesWide : do_destroy_eventset(h)
    \/ \E h \in HandlesWide : do_start(h)
    \/ \E h \in HandlesWide : do_stop(h)
    \/ \E h \in HandlesWide : do_read(h)
    \/ \E h \in HandlesWide : do_reset(h)

NextShutdown ==
    \/ do_shutdown_tracked /\ UNCHANGED <<main, wrapped>>
    \/ StepShutdown /\ UNCHANGED <<invalidated, main, wrapped>>

SpecShutdown == Init /\ [][NextShutdown]_vars

\* a call of an event-set operation with handle h
CallOn(h) ==
    \/ do_add_event(h, PAPI_TOT_CYC)
    \/ do_list_events(h)
    \/ do_num_events(h)
    \/ do_cleanup_eventset(h)
    \/ do_destroy_eventset(h)
    \/ do_start(h)
    \/ do_stop(h)
    \/ do_read(h)
    \/ do_reset(h)

\* C8 as stated: once a handle was live at a shutdown, every later operation
\* on it raises PapiNotInitializedError, whatever happened in between.
C8_InvalidatedForever ==
    [][\A h \in invalidated : CallOn(h) => last'.out = NotInitialized]_vars

\* C8 as amended: once a handle was live at a shutdown, every operation on it
\* raises PapiNotInitializedError for as long as library_init has not been
\* called again.
C8_InvalidatedUntilInit ==
    [][\A h \in invalidated :
         (papi_initialized = 0 /\ CallOn(h)) => last'.out = NotInitialized]_vars

\* start has been refused on one of two handles that a shutdown invalidated
C8_Witness ==
    /\ papi_initialized = 0
    /\ Cardinality(invalidated) = 2
    /\ invalidated \subseteq Allocated
    /\ last.op = "start"
    /\ last.out = NotInitialized

\* every event-set operation with handle h raises exc
AllRaise(h, exc) ==
    /\ add_event(h, PAPI_TOT_CYC).out = exc
    /\ list_events(h).out = exc
    /\ num_events(h).out = exc
    /\ cleanup_eventset(h).out = exc
    /\ destroy_eventset(h).out = exc
    /\ start(h).out = exc
    /\ stop(h).out = exc
    /\ read(h).out = exc
    /\ reset(h).out = exc

\* C35: the library_init that follows a shutdown leaves the subsystem
\* initialized with no event set live or Running and the whole pool of
\* identifiers free (create_eventset issues the first one); from then on
\* every operation on a handle that was live at the shutdown raises
\* PapiInvalidValueError for as long as the handle is not live, and only a
\* create_eventset that returns that handle makes it live again.
C35_NothingSurvivesReinit ==
    [][/\ (last'.op = "library_init" /\ papi_initialized = 0
              /\ \E version \in Versions : do_library_init(version)) =>
              /\ papi_initialized' # 0
              /\ \A s \in Slots : (~Live(s))' /\ (~Running(s))'
              /\ \A s \in 1 .. (MAX_EVENT_SETS - 1) : (Slot(s).id = 0)'
              /\ create_eventset'.out = IntVal(1)
              /\ \A h \in invalidated : AllRaise(h, InvalidValue)'
       /\ \A h \in invalidated :
              (papi_initialized # 0 /\ ~Live(h)) =>
                  /\ AllRaise(h, InvalidValue)
                  /\ Live(h)' => last' = [op |-> "create_eventset", out |-> IntVal(h)]]_vars

\* library_init has just been called after a shutdown that found two event
\* sets live, and no slot is allocated
C35_Witness ==
    /\ last.op = "library_init"
    /\ papi_initialized # 0
    /\ invalidated = {1, 2}
    /\ Allocated = {}
    /\ AllRaise(1, InvalidValue)

(***************************************************************************)
(* SpecPool: the whole table of event sets.  create_eventset is called     *)
(* until no slot is free; the first two slots and the last one are grown,  *)
(* started and destroyed.                                                  *)
(***************************************************************************)
PoolHandles == {1, 2, MAX_EVENT_SETS - 1}

\* the identifiers that PAPI_create_eventset issues
Pool == 1 .. (MAX_EVENT_SETS - 1)

StepPool ==
    \/ do_library_init(PAPI_VER_CURRENT)
    \/ do_shutdown
    \/ do_create_eventset
    \/ \E h \in PoolHandles : CanAdd(h, 1) /\ do_add_event(h, PAPI_TOT_CYC)
    \/ \E h \in PoolHandles : do_start(h)
    \/ \E h \in PoolHandles : do_destroy_eventset(h)

NextPool == StepPool /\ UNCHANGED <<invalidated, main, wrapped>>

SpecPool == Init /\ [][NextPool]_vars

NoMemory == Raised("PapiNoMemoryError", PAPI_ENOMEM)

\* C14: with the subsystem initialized, create_eventset raises
\* PapiNoMemoryError and changes nothing when every identifier of the pool
\* belongs to a live event set, and succeeds when one is free.
C14_ExhaustionIsNoMemory ==
    papi_initialized # 0 =>
        IF \A s \in Pool : Live(s)
        THEN /\ create_eventset.out = NoMemory
             /\ create_eventset.es = event_sets
             /\ create_eventset.init = papi_initialized
        ELSE /\ ~Failed(create_eventset.out)
             /\ create_eventset.out.kind = "int"
             /\ create_eventset.out.int \in Pool

\* create_eventset has been refused with every identifier live, one of the
\* event sets Running with a member
C14_Witness ==
    /\ last.op = "create_eventset"
    /\ last.out = NoMemory
    /\ \A s \in Pool : Live(s)
    /\ \E s \in Pool : Running(s) /\ Slot(s).num_events = 1

\* C15: the identifier that a successful create_eventset returns belongs to
\* no live event set before the call and to a live one after it, and every
\* other slot is left as it was.
C15_IdentifiersUnique ==
    [][(last'.op = "create_eventset" /\ do_create_eventset /\ ~Failed(last'.out)) =>
          \E h \in Pool :
             /\ last'.out = IntVal(h)
             /\ ~Live(h)
             /\ Live(h)'
             /\ \A s \in Slots \ {h} : Slot(s)' = Slot(s)]_vars

\* create_eventset has reissued identifier 1, freed by destroy_eventset,
\* while every other identifier was live
C15_Witness ==
    /\ last.op = "create_eventset"
    /\ last.out = IntVal(1)
    /\ \A s \in Pool : Live(s)

\* a call that raises leaves papi_initialized and event_sets as they were
Atomic(r) == Failed(r.out) => (r.init = papi_initialized /\ r.es = event_sets)

\* C34: an event-set operation that raises leaves the initialized flag and
\* every event set (members, run state, baseline values) exactly as before
\* the call.
C34_FailureIsAtomic ==
    /\ Atomic(create_eventset)
    /\ \A h \in PoolHandles \cup {0, MAX_EVENT_SETS} :
           /\ \A code \in Codes : Atomic(add_event(h, code))
           /\ Atomic(start(h))
           /\ Atomic(read(h))
           /\ Atomic(stop(h))
           /\ Atomic(reset(h))
           /\ Atomic(cleanup_eventset(h))
           /\ Atomic(destroy_eventset(h))

\* destroy_eventset has just been refused on a Running event set that has a
\* member, next to a Stopped one, in a full pool where create_eventset
\* fails too
C34_Witness ==
    /\ last = [op |-> "destroy_eventset", out |-> IsRunning]
    /\ Failed(create_eventset.out)
    /\ \E h \in PoolHandles : Running(h) /\ Slot(h).num_events = 1
                                /\ Failed(cleanup_eventset(h).out)
    /\ \E h \in PoolHandles : Stopped(h) /\ Failed(stop(h).out)

(***************************************************************************)
(* SpecCodes: as Spec, with an event code that is neither PAPI_TOT_CYC nor *)
(* PAPI_TOT_INS among the codes that add_event is called with.             *)
(***************************************************************************)
UnknownCode == 12345

AllCodes == Codes \cup {UnknownCode}

StepCodes ==
    \/ do_library_init(PAPI_VER_CURRENT)
    \/ CanCreate(MaxSets) /\ do_create_eventset
    \/ \E h \in Handles, code \in AllCodes :
          CanAdd(h, MaxMembers) /\ do_add_event(h, code)
    \/ \E h \in Handles : do_list_events(h)
    \/ \E h \in Handles : do_cleanup_eventset(h)
    \/ \E h \in Handles : do_start(h)
    \/ \E h \in Handles : do_stop(h)
    \/ Tick

NextCodes == StepCodes /\ UNCHANGED <<invalidated, main, wrapped>>

SpecCodes == Init /\ [][NextCodes]_vars

NoSuchEvent == Raised("PapiNoEventError", PAPI_ENOEVNT)

\* C18: add_event of an unrecognized code on a live Stopped event set raises
\* PapiNoEventError and leaves every event set as it was.
C18_UnknownCodeRaises ==
    [][\A h \in Handles :
         (last'.op = "add_event" /\ Stopped(h) /\ do_add_event(h, UnknownCode)) =>
            (last'.out = NoSuchEvent /\ event_sets' = event_sets)]_vars

(***************************************************************************)
(* SpecDestroy: up to MaxSetsWide event sets, and the history of the       *)
(* handles that destroy_eventset was called with and succeeded.            *)
(***************************************************************************)
do_destroy_eventset_tracked(h) ==
    /\ do_destroy_eventset(h)
    /\ invalidated' = IF Failed(last'.out) THEN invalidated ELSE invalidated \cup {h}

StepDestroy ==
    \/ \E version \in Versions : do_library_init(version)
    \/ do_shutdown
    \/ CanCreate(MaxSetsWide) /\ do_create_eventset
    \/ \E h \in HandlesWide : CanAdd(h, 1) /\ do_add_event(h, PAPI_TOT_CYC)
    \/ \E h \in HandlesWide : do_list_events(h)
    \/ \E h \in HandlesWide : do_num_events(h)
    \/ \E h \in HandlesWide : do_cleanup_eventset(h)
    \/ \E h \in HandlesWide : do_start(h)
    \/ \E h \in HandlesWide : do_stop(h)
    \/ \E h \in HandlesWide : do_read(h)
    \/ \E h \in HandlesWide : do_reset(h)

NextDestroy ==
    \/ \E h \in HandlesWide : do_destroy_eventset_tracked(h) /\ UNCHANGED <<main, wrapped>>
    \/ StepDestroy /\ UNCHANGED <<invalidated, main, wrapped>>

SpecDestroy == Init /\ [][NextDestroy]_vars

StepIndependent ==
    \/ do_library_init(PAPI_VER_CURRENT)
    \/ CanCreate(MaxSetsWide) /\ do_create_eventset
    \/ \E h \in HandlesWide : CanAdd(h, 1) /\ do_add_event(h, PAPI_TOT_CYC)
    \/ \E h \in HandlesWide : do_cleanup_eventset(h)
    \/ \E h \in HandlesWide : do_destroy_eventset(h)
    \/ \E h \in HandlesWide : do_start(h)
    \/ \E h \in HandlesWide : do_stop(h)
    \/ \E h \in HandlesWide : do_read(h)
    \/ \E h \in HandlesWide : do_reset(h)
    \/ Tick

NextIndependent == StepIndependent /\ UNCHANGED <<invalidated, main, wrapped>>

SpecIndependent == Init /\ [][NextIndependent]_vars

\* C26: an event-set operation called with handle h, whether it succeeds or
\* raises, leaves every slot other than h as it was: identifier, members,
\* run state and baseline values.
C26_OtherSetsUnchanged ==
    [][\A h \in HandlesWide :
         CallOn(h) => \A s \in Slots \ {h} : Slot(s)' = Slot(s)]_vars

\* reset has moved the baseline of one of two Running event sets and the
\* other one still has the baseline of its start
C26_Witness ==
    /\ last.op = "reset"
    /\ ~Failed(last.out)
    /\ Running(1)
    /\ Running(2)
    /\ Slot(1).num_events = 1
    /\ Slot(2).num_events = 1
    /\ Get(Slot(1).start_values, 0) # Get(Slot(2).start_values, 0)

(***************************************************************************)
(* SpecIpc: ipc() called again and again while the counters advance.  A    *)
(* float is the quotient of two integers, num / den; den = 0 is the inf or *)
(* nan of a division by zero.  ipc() sleeps between its two samples: the   *)
(* cycle counter is read dc later (earlier, when the second sample is      *)
(* taken on a core whose time-stamp counter is behind) and the CPU time dj *)
(* later.  The real and process times of the result are left out.          *)
(***************************************************************************)
MaxIpcTsc == 5          \* ticks of the cycle counter
MaxIpcJiffies == 3      \* ticks of the process CPU time

Float(num, den) == [num |-> num, den |-> den]

FloatZero == Float(0, 1)

SameFloat(a, b) == a.den # 0 /\ b.den # 0 /\ a.num * b.den = b.num * a.den

\* get_cycles and get_instructions when the counters have advanced
get_cycles_after(dc) == tsc + dc

get_instructions_after(dc, dj) ==
    LET result == (jiffies + dj) * 1000000
    IN  IF result = 0 THEN get_cycles_after(dc) ELSE result

IPCVal(ins, ipc) ==
    [kind |-> "IPC", exc |-> "", int |-> ins, list |-> <<>>, ipc |-> ipc]

\* variant: the quotient is taken unless the elapsed cycles are zero
PAPI_ipc_divides_unless_zero(dc, dj) ==
    LET start_cycles == get_cycles
        start_ins == get_instructions
        end_cycles == get_cycles_after(dc)
        end_ins == get_instructions_after(dc, dj)
        ins == end_ins - start_ins
        cycles == end_cycles - start_cycles
    IN  [rc |-> PAPI_OK,
         ins |-> ins,
         ipc |-> IF cycles # 0 THEN Float(ins, cycles) ELSE FloatZero]

PAPI_ipc(dc, dj) ==
    LET start_cycles == get_cycles
        start_ins == get_instructions
        end_cycles == get_cycles_after(dc)
        end_ins == get_instructions_after(dc, dj)
        ins == end_ins - start_ins
        cycles == end_cycles - start_cycles
    IN  [rc |-> PAPI_OK,
         ins |-> ins,
         ipc |-> IF cycles > 0 THEN Float(ins, cycles) ELSE FloatZero]

ipc(dc, dj) ==
    LET r == PAPI_ipc(dc, dj)
    IN  [out |-> IF r.rc = 0
                 THEN papi_error(r.rc, IPCVal(r.ins, r.ipc))
                 ELSE papi_error(r.rc, None),
         init |-> papi_initialized, es |-> event_sets]

do_ipc(dc, dj) ==
    /\ tsc + dc \in 0 .. MaxIpcTsc
    /\ jiffies + dj \in 0 .. MaxIpcJiffies
    /\ last' = [op |-> "ipc", out |-> ipc(dc, dj).out]
    /\ tsc' = tsc + dc
    /\ jiffies' = jiffies + dj
    /\ UNCHANGED <<papi_initialized, event_sets, adds>>

ElapsedCycles == (0 - 1) .. MaxIpcTsc
ElapsedJiffies == 0 .. MaxIpcJiffies

NextIpc ==
    /\ \E dc \in ElapsedCycles, dj \in ElapsedJiffies : do_ipc(dc, dj)
    /\ UNCHANGED <<invalidated, main, wrapped>>

SpecIpc == Init /\ [][NextIpc]_vars

\* C28: ipc() never raises; when the cycle counter has advanced by dc > 0
\* between its two samples, the rate it returns is the instruction count it
\* returns divided by dc, and when dc <= 0 the rate is 0.0; the rate is
\* never the result of a division by zero.
C28_IpcGuardsDivision ==
    [][\A dc \in ElapsedCycles, dj \in ElapsedJiffies :
         do_ipc(dc, dj) =>
            /\ last'.out.kind = "IPC"
            /\ last'.out.ipc.den # 0
            /\ IF dc > 0
               THEN SameFloat(last'.out.ipc, Float(last'.out.int, dc))
               ELSE last'.out.ipc = FloatZero /\ SameFloat(last'.out.ipc, Float(0, 1))]_vars

\* ipc() has returned the rate 0.0 with an instruction count that is not
\* zero: the cycle counter did not advance while the CPU time did
C28_Witness ==
    /\ last.op = "ipc"
    /\ last.out.kind = "IPC"
    /\ last.out.ipc = FloatZero
    /\ last.out.int > 0

(***************************************************************************)
(* SpecStrerror: strerror called with every code of a range around the     *)
(* taxonomy.  `wrapped` holds the code and the message returned.           *)
(***************************************************************************)
MaxErrcode == 60        \* codes -MaxErrcode .. MaxErrcode

StrVal(str) == [kind |-> "str", exc |-> "", int |-> 0, list |-> <<>>, str |-> str]

strerror(errcode) ==
    LET msg == PAPI_strerror(errcode)
    IN  IF msg.null
        THEN "Unknown error: " \o Decimal(errcode)
        ELSE msg.string

do_strerror(errcode) ==
    /\ wrapped' = [rcode |-> errcode, result |-> None, out |-> StrVal(strerror(errcode))]
    /\ UNCHANGED <<papi_initialized, event_sets, tsc, jiffies, last, adds,
                   invalidated, main>>

Errcodes == (0 - MaxErrcode) .. MaxErrcode

NextStrerror == \E errcode \in Errcodes : do_strerror(errcode)

SpecStrerror == Init /\ [][NextStrerror]_vars

\* the number that a string of decimal digits denotes, -1 if it is empty or
\* has another character
RECURSIVE ParseDigits(_)
ParseDigits(str) ==
    LET n == Len(str)
        c == SubSeq(str, n, n)
        digits == {d \in 0 .. 9 : <<"0", "1", "2", "3", "4", "5", "6", "7", "8", "9">>[d + 1] = c}
        d == CHOOSE x \in digits : TRUE
        front == ParseDigits(SubSeq(str, 1, n - 1))
    IN  IF n = 0 \/ digits = {} THEN 0 - 1
        ELSE IF n = 1 THEN d
        ELSE IF front < 0 THEN 0 - 1 ELSE 10 * front + d

IsDigit(c) == ParseDigits(c) >= 0

\* a message holds the numeral of a code when one of its maximal runs of
\* digits, with the minus sign before it if there is one, denotes the code
HoldsNumeral(str, code) ==
    \E i \in 1 .. Len(str) : \E j \in i .. Len(str) :
        /\ ParseDigits(SubSeq(str, i, j)) >= 0
        /\ (i = 1 \/ ~IsDigit(SubSeq(str, i - 1, i - 1)))
        /\ (j = Len(str) \/ ~IsDigit(SubSeq(str, j + 1, j + 1)))
        /\ code = IF i > 1 /\ SubSeq(str, i - 1, i - 1) = "-"
                  THEN 0 - ParseDigits(SubSeq(str, i, j))
                  ELSE ParseDigits(SubSeq(str, i, j))

\* C30: strerror called with a code that is neither PAPI_OK nor a code of
\* the taxonomy returns a message that holds the numeral of that code.
C30_UnmappedMessageHoldsCode ==
    (wrapped.out.kind = "str" /\ wrapped.rcode \notin TaxonomyCodes \cup {PAPI_OK}) =>
        /\ Len(wrapped.out.str) > 0
        /\ HoldsNumeral(wrapped.out.str, wrapped.rcode)

C30_Witness ==
    /\ wrapped.rcode = 0 - 60
    /\ wrapped.out = StrVal("Unknown error code: -60")

\* a message of the unknown-code form, which names no error kind
IsUnknownCodeMessage(str) ==
    Len(str) >= Len("Unknown error") /\ SubSeq(str, 1, Len("Unknown error")) = "Unknown error"

\* C31: strerror called with a code of the 26-kind taxonomy returns a
\* non-empty message that is not the unknown-code message and that no other
\* code of the taxonomy gets.
C31_TaxonomyMessagesSpecific ==
    (wrapped.out.kind = "str" /\ wrapped.rcode \in TaxonomyCodes) =>
        /\ Len(wrapped.out.str) > 0
        /\ ~IsUnknownCodeMessage(wrapped.out.str)
        /\ \A other \in TaxonomyCodes \ {wrapped.rcode} :
               strerror(other) # wrapped.out.str

(***************************************************************************)
(* SpecFull: one event set filled with PAPI_TOT_CYC up to the capacity of  *)
(* the events array; the counters stand still.                             *)
(***************************************************************************)
StepFull ==
    \/ do_library_init(PAPI_VER_CURRENT)
    \/ do_shutdown
    \/ CanCreate(MaxSets) /\ do_create_eventset
    \/ \E h \in Handles : do_add_event(h, PAPI_TOT_CYC)
    \/ \E h \in Handles : do_num_events(h)
    \/ \E h \in Handles : do_cleanup_eventset(h)
    \/ \E h \in Handles : do_start(h)
    \/ \E h \in Handles : do_stop(h)

NextFull == StepFull /\ UNCHANGED <<invalidated, main, wrapped>>

SpecFull == Init /\ [][NextFull]_vars

ResourceConflict == Raised("PapiConflictError", PAPI_ECNFLCT)

\* C33: no event set has more than MAX_EVENTS members, and add_event on a
\* live event set that has MAX_EVENTS members raises PapiConflictError and
\* leaves every event set, its members included, as it was.
C33_AtMostMaxEvents ==
    /\ \A s \in Slots : Slot(s).num_events <= MAX_EVENTS
    /\ \A h \in Handles :
           (Live(h) /\ Slot(h).num_events = MAX_EVENTS) =>
               \A code \in Codes :
                   /\ add_event(h, code).out = ResourceConflict
                   /\ add_event(h, code).es = event_sets
                   /\ add_event(h, code).init = papi_initialized

\* add_event has just been refused on an event set that has MAX_EVENTS
\* members
C33_Witness ==
    /\ last = [op |-> "add_event", out |-> ResourceConflict]
    /\ \E h \in Handles :
           /\ Live(h)
           /\ Slot(h).num_events = MAX_EVENTS
           /\ Len(Members(h)) = MAX_EVENTS
           /\ Len(adds[h]) = MAX_EVENTS

(***************************************************************************)
(* SpecDescriptors: the descriptor queries of a component, of the hardware *)
(* and of the executable, called at any moment of the life of an event     *)
(* set.                                                                    *)
(***************************************************************************)
MaxCidx == 1            \* component indices -1 .. MaxCidx

\* a descriptor record returned by a query, and a read through a pointer
\* that does not hold an address
InfoVal(info) == [kind |-> "info", exc |-> "", int |-> 0, list |-> <<>>, info |-> info]
Crashed == [kind |-> "crash", exc |-> "", int |-> 0, list |-> <<>>]

NullPointer == [null |-> TRUE, intact |-> TRUE, info |-> <<>>]

\* The function is defined with result type int and returns (int)NULL or
\* (int)&info; the caller reads the result as a pointer.  (int)NULL is the
\* null pointer; (int)&info is the address of the static record when the
\* cast keeps it whole (`intact`) and an address of nothing otherwise.
PAPI_get_component_info(cidx, intact) ==
    IF cidx # 0
    THEN NullPointer
    ELSE [null |-> FALSE,
          intact |-> intact,
          info |-> [name |-> "cpu",
                    short_name |-> "cpu",
                    description |-> "System CPU metrics",
                    version |-> "1.0",
                    num_cntrs |-> MAX_EVENTS,
                    num_preset_events |-> 2]]

\* the embedded library defines neither function: each returns a pointer to
\* a record of the subsystem, or the null pointer
PAPI_get_hardware_info(null) ==
    IF null THEN NullPointer
    ELSE [null |-> FALSE, intact |-> TRUE,
          info |-> [ncpu |-> 1, threads |-> 1, cores |-> 1, sockets |-> 1,
                    nnodes |-> 1, totalcpus |-> 1]]

PAPI_get_executable_info(null) ==
    IF null THEN NullPointer
    ELSE [null |-> FALSE, intact |-> TRUE,
          info |-> [fullname |-> "python", address_info |-> [name |-> "python"]]]

\* the record built from the fields of *info, or the crash of reading them
Marshal(info) ==
    IF info.intact THEN papi_error(0, InfoVal(info.info)) ELSE Crashed

\* variant: a null result is reported as success with no record
get_component_info_null_as_none(cidx, intact) ==
    LET info == PAPI_get_component_info(cidx, intact)
    IN  [out |-> IF info.null THEN papi_error(0, None) ELSE Marshal(info),
         init |-> papi_initialized, es |-> event_sets]

get_component_info(cidx, intact) ==
    LET info == PAPI_get_component_info(cidx, intact)
    IN  [out |-> IF info.null THEN papi_error(0 - 1, None) ELSE Marshal(info),
         init |-> papi_initialized, es |-> event_sets]

get_hardware_info(null) ==
    LET info == PAPI_get_hardware_info(null)
    IN  [out |-> IF info.null THEN papi_error(0 - 1, None) ELSE Marshal(info),
         init |-> papi_initialized, es |-> event_sets]

get_executable_info(null) ==
    LET info == PAPI_get_executable_info(null)
    IN  [out |-> IF info.null THEN papi_error(0 - 1, None) ELSE Marshal(info),
         init |-> papi_initialized, es |-> event_sets]

do_get_component_info(cidx, intact) ==
    /\ Call("get_component_info", get_component_info(cidx, intact))
    /\ UNCHANGED adds

do_get_hardware_info(null) ==
    /\ Call("get_hardware_info", get_hardware_info(null))
    /\ UNCHANGED adds

do_get_executable_info(null) ==
    /\ Call("get_executable_info", get_executable_info(null))
    /\ UNCHANGED adds

Cidxs == (0 - 1) .. MaxCidx

StepDescriptors ==
    \/ do_library_init(PAPI_VER_CURRENT)
    \/ do_shutdown
    \/ CanCreate(MaxSets) /\ do_create_eventset
    \/ \E h \in Handles : CanAdd(h, MaxMembers) /\ do_add_event(h, PAPI_TOT_CYC)
    \/ \E h \in Handles : do_start(h)
    \/ \E h \in Handles : do_stop(h)
    \/ \E cidx \in Cidxs, intact \in BOOLEAN : do_get_component_info(cidx, intact)
    \/ \E null \in BOOLEAN : do_get_hardware_info(null)
    \/ \E null \in BOOLEAN : do_get_executable_info(null)

NextDescriptors == StepDescriptors /\ UNCHANGED <<invalidated, main, wrapped>>

SpecDescriptors == Init /\ [][NextDescriptors]_vars

\* C37: a call of get_component_info, get_hardware_info or
\* get_executable_info whose native call returns the null pointer raises
\* PapiInvalidValueError; it returns neither a record nor None nor a status.
C37_NullDescriptorRaises ==
    [][/\ \A cidx \in Cidxs, intact \in BOOLEAN :
              (last'.op = "get_component_info"
                  /\ PAPI_get_component_info(cidx, intact).null
                  /\ do_get_component_info(cidx, intact)) =>
                  last'.out = InvalidValue
       /\ (last'.op = "get_hardware_info" /\ PAPI_get_hardware_info(TRUE).null
              /\ do_get_hardware_info(TRUE)) =>
              last'.out = InvalidValue
       /\ (last'.op = "get_executable_info" /\ PAPI_get_executable_info(TRUE).null
              /\ do_get_executable_info(TRUE)) =>
              last'.out = InvalidValue]_vars

\* get_component_info has just been refused, while an event set is Running
C37_Witness ==
    /\ last = [op |-> "get_component_info", out |-> InvalidValue]
    /\ \E h \in Handles : Running(h)

====
